---- MODULE Spec2Model ----
(***************************************************************************)
(* Model of the credential / session refresh state machine of              *)
(* ig-markets-auth: Credentials (ig_markets_auth/credentials.py), the      *)
(* TimeoutGuard and AuthorizedSession.request                              *)
(* (ig_markets_api/auth/requests.py), the Flow (ig_markets_auth/flow.py)   *)
(* and the refresh of ig_markets_api/auth/credentials.py.                  *)
(*                                                                         *)
(* Spec is one session used by one caller, FairSpec the same with its      *)
(* calls running on, ReplaySpec a session whose caller passes bodies,      *)
(* query parameters and cookies; CredentialsSpec and ApiSpec are a         *)
(* Credentials object used on its own, FlowSpec a Flow object, RaceSpec    *)
(* two threads in the auth gate of one session.                            *)
(*                                                                         *)
(* Time is counted in ticks of half a second.  A Python Optional is a      *)
(* sequence of length at most one: None is <<>>, a present value v is      *)
(* <<v>>.  A Python str that the code takes apart (the scopes) is a        *)
(* sequence of one-character strings.  An HTTP header mapping is a         *)
(* function from header names to sequences of strings.                     *)
(***************************************************************************)
EXTENDS Integers, Sequences, FiniteSets, TLC

\* ------------------------------------------------------------------ bounds

\* The clock stops advancing at MaxTime ticks.
MaxTime == 3
\* The longest a single transport call takes, in ticks.
MaxStep == 2
\* The largest max_refresh_attempts a session is built with.
MaxAttempts == 2

\* ------------------------------------------------------- values and helpers

None == <<>>

Some(v) == <<v>>

\* seconds to ticks
Ticks(seconds) == seconds * 2

Min(S) == CHOOSE x \in S : \A y \in S : x <= y

CLOCK_SKEW_SECS == 10

CLOCK_SKEW == Ticks(CLOCK_SKEW_SECS)

UNAUTHORIZED == 401

DEFAULT_REFRESH_STATUS_CODES == {UNAUTHORIZED}

DEFAULT_MAX_REFRESH_ATTEMPTS == 2

API_URL == "https://demo-api.ig.com/gateway/deal"

\* helpers.from_bytes: a str is returned as it is, anything else (None) is a
\* ValueError.
from_bytes(value) ==
    IF value = None
    THEN [exc |-> Some("ValueError"), value |-> None]
    ELSE [exc |-> None, value |-> value]

\* ------------------------------------------------------------ Credentials

\* _parse_expiry(response_data), evaluated at time t.
parse_expiry(response_data, t) ==
    IF response_data.expires_in # None
    THEN Some(t + Ticks(response_data.expires_in[1]))
    ELSE None

\* Credentials.from_token_response(token, token_uri), evaluated at time t.
from_token_response(token, token_uri, t) ==
    [token         |-> token.access_token,
     refresh_token |-> token.refresh_token,
     token_uri     |-> token_uri,
     scopes        |-> token.scope,
     expiry        |-> parse_expiry(token, t)]

\* Variant: the skewed expiry itself still counts as not expired.
expired_after_boundary(self, t) ==
    IF self.expiry = None
    THEN FALSE
    ELSE t > self.expiry[1] - CLOCK_SKEW

\* Variant: credentials without an expiry count as expired.
expired_without_expiry(self, t) ==
    IF self.expiry = None
    THEN TRUE
    ELSE t >= self.expiry[1] - CLOCK_SKEW

\* Credentials.expired at time t.
expired(self, t) ==
    IF self.expiry = None
    THEN FALSE
    ELSE t >= self.expiry[1] - CLOCK_SKEW

\* Variant: a token is all it takes to be valid.
valid_ignores_expiry(self, t) == self.token # None

\* Credentials.valid at time t.
valid(self, t) == self.token # None /\ ~expired(self, t)

\* str.split(): the whitespace-separated words of s, as a set.
RECURSIVE SplitWords(_, _)
SplitWords(s, word) ==
    IF s = <<>>
    THEN (IF word = <<>> THEN {} ELSE {word})
    ELSE IF Head(s) = " "
         THEN (IF word = <<>> THEN {} ELSE {word}) \cup SplitWords(Tail(s), <<>>)
         ELSE SplitWords(Tail(s), Append(word, Head(s)))

split(s) == SplitWords(s, <<>>)

\* frozenset(s) of a str s: the set of its characters, each a str of length 1.
frozenset_of_str(s) == {<<s[i]>> : i \in DOMAIN s}

\* The scope check at the end of Credentials.refresh: TRUE when it raises.
scopes_requested_but_not_granted(self, grant_response) ==
    IF self.scopes # None /\ self.scopes[1] # <<>> /\ grant_response.scopes # None
    THEN frozenset_of_str(self.scopes[1]) \ split(grant_response.scopes[1])
    ELSE {}

\* Variant: the refresh_token is the response's, present or not.
refresh_grant_drops_refresh_token(refresh_token, reply, t) ==
    IF reply.kind = "error"
    THEN [exc |-> Some("TransportError")]
    ELSE IF reply.data.access_token = None
    THEN [exc |-> Some("RefreshError")]
    ELSE [exc           |-> None,
          access_token  |-> reply.data.access_token,
          refresh_token |-> reply.data.refresh_token,
          expiry        |-> parse_expiry(reply.data, t),
          grant_response |-> reply.data]

\* Variant: a body without access_token is taken as a grant of no token.
refresh_grant_null_token(refresh_token, reply, t) ==
    IF reply.kind = "error"
    THEN [exc |-> Some("TransportError")]
    ELSE [exc           |-> None,
          access_token  |-> reply.data.access_token,
          refresh_token |-> IF reply.data.refresh_token # None
                            THEN reply.data.refresh_token
                            ELSE refresh_token,
          expiry        |-> parse_expiry(reply.data, t),
          grant_response |-> reply.data]

\* refresh_grant(client, token_uri, refresh_token, scopes): reply is what the
\* POST to the token endpoint produced, t is the time when the reply is
\* parsed.
refresh_grant(refresh_token, reply, t) ==
    IF reply.kind = "error"
    THEN [exc |-> Some("TransportError")]
    ELSE IF reply.data.access_token = None
    THEN [exc |-> Some("RefreshError")]
    ELSE [exc           |-> None,
          access_token  |-> reply.data.access_token,
          refresh_token |-> IF reply.data.refresh_token # None
                            THEN reply.data.refresh_token
                            ELSE refresh_token,
          expiry        |-> parse_expiry(reply.data, t),
          grant_response |-> reply.data]

\* Variant: the token_uri is not looked at.
can_refresh_without_token_uri(self) == ~(self.refresh_token = None)

\* Whether Credentials.refresh gets as far as the POST to the token endpoint.
can_refresh(self) == ~(self.refresh_token = None \/ self.token_uri = None)

\* Variant: a grant that the skew would make expired at once is given an
\* expiry one tick past the skew.
refresh_min_lifetime(self, reply, t) ==
    IF ~can_refresh(self)
    THEN [credentials |-> self, exc |-> Some("RefreshError"), posts |-> 0]
    ELSE LET g == refresh_grant(self.refresh_token, reply, t) IN
         IF g.exc # None
         THEN [credentials |-> self, exc |-> g.exc, posts |-> 1]
         ELSE LET expiry == IF g.expiry # None /\ g.expiry[1] <= t + CLOCK_SKEW
                            THEN Some(t + CLOCK_SKEW + 1)
                            ELSE g.expiry
                  new == [self EXCEPT !.token = g.access_token,
                                      !.expiry = expiry,
                                      !.refresh_token = g.refresh_token] IN
              [credentials |-> new,
               exc |-> IF scopes_requested_but_not_granted(new, g.grant_response) # {}
                       THEN Some("RefreshError")
                       ELSE None,
               posts |-> 1]

\* Variant: a refresh that fails the scope check restores the fields.
refresh_rolls_back(self, reply, t) ==
    IF ~can_refresh(self)
    THEN [credentials |-> self, exc |-> Some("RefreshError"), posts |-> 0]
    ELSE LET g == refresh_grant(self.refresh_token, reply, t) IN
         IF g.exc # None
         THEN [credentials |-> self, exc |-> g.exc, posts |-> 1]
         ELSE LET new == [self EXCEPT !.token = g.access_token,
                                      !.expiry = g.expiry,
                                      !.refresh_token = g.refresh_token] IN
              IF scopes_requested_but_not_granted(new, g.grant_response) # {}
              THEN [credentials |-> self, exc |-> Some("RefreshError"), posts |-> 1]
              ELSE [credentials |-> new, exc |-> None, posts |-> 1]

\* Variant: the expiry of the grant is not stored.
refresh_keeps_expiry(self, reply, t) ==
    IF ~can_refresh(self)
    THEN [credentials |-> self, exc |-> Some("RefreshError"), posts |-> 0]
    ELSE LET g == refresh_grant(self.refresh_token, reply, t) IN
         IF g.exc # None
         THEN [credentials |-> self, exc |-> g.exc, posts |-> 1]
         ELSE LET new == [self EXCEPT !.token = g.access_token,
                                      !.refresh_token = g.refresh_token] IN
              [credentials |-> new,
               exc |-> IF scopes_requested_but_not_granted(new, g.grant_response) # {}
                       THEN Some("RefreshError")
                       ELSE None,
               posts |-> 1]

\* Credentials.refresh(request): the credentials after the call, the exception
\* it raised (None when it returned) and the number of requests it issued.
refresh(self, reply, t) ==
    IF ~can_refresh(self)
    THEN [credentials |-> self, exc |-> Some("RefreshError"), posts |-> 0]
    ELSE LET g == refresh_grant(self.refresh_token, reply, t) IN
         IF g.exc # None
         THEN [credentials |-> self, exc |-> g.exc, posts |-> 1]
         ELSE LET new == [self EXCEPT !.token = g.access_token,
                                      !.expiry = g.expiry,
                                      !.refresh_token = g.refresh_token] IN
              [credentials |-> new,
               exc |-> IF scopes_requested_but_not_granted(new, g.grant_response) # {}
                       THEN Some("RefreshError")
                       ELSE None,
               posts |-> 1]

\* Variant: an Authorization header that is already there is kept.
apply_keeps_authorization(self, headers) ==
    LET b == from_bytes(self.token) IN
    IF b.exc # None
    THEN [headers |-> headers, exc |-> b.exc]
    ELSE [headers |-> headers @@ ("Authorization" :> <<"Bearer", b.value[1]>>),
          exc |-> None]

\* Credentials.apply(headers): the headers after the update.
apply(self, headers) ==
    LET b == from_bytes(self.token) IN
    IF b.exc # None
    THEN [headers |-> headers, exc |-> b.exc]
    ELSE [headers |-> ("Authorization" :> <<"Bearer", b.value[1]>>) @@ headers,
          exc |-> None]

\* Variant: the gate applies the token it has and never refreshes.
before_request_no_refresh(self, headers, reply, t0, t) ==
    LET a == apply(self, headers) IN
    [credentials |-> self, headers |-> a.headers,
     exc |-> a.exc, posts |-> 0, refreshed |-> FALSE]

\* Credentials.before_request(request, method, url, headers): t0 is the time
\* at entry, t the time when a refresh reply is parsed.
before_request(self, headers, reply, t0, t) ==
    IF ~valid(self, t0)
    THEN LET r == refresh(self, reply, t) IN
         IF r.exc # None
         THEN [credentials |-> r.credentials, headers |-> headers,
               exc |-> r.exc, posts |-> r.posts, refreshed |-> TRUE]
         ELSE LET a == apply(r.credentials, headers) IN
              [credentials |-> r.credentials, headers |-> a.headers,
               exc |-> a.exc, posts |-> r.posts, refreshed |-> TRUE]
    ELSE LET a == apply(self, headers) IN
         [credentials |-> self, headers |-> a.headers,
          exc |-> a.exc, posts |-> 0, refreshed |-> FALSE]

\* ----------------------------------------------------------- TimeoutGuard

\* The three shapes of a timeout: None, a number, a (connect, read) pair.
NoTimeout == [kind |-> "None"]

Number(n) == [kind |-> "Number", n |-> n]

Pair(a, b) == [kind |-> "Tuple", t |-> <<a, b>>]

\* Variant: the deadline is hit only once the budget is overdrawn.
TimeoutGuard_exit_strict(timeout, elapsed, exc_value) ==
    IF exc_value # None
    THEN [remaining_timeout |-> timeout, exc |-> exc_value]
    ELSE IF timeout.kind = "None"
    THEN [remaining_timeout |-> timeout, exc |-> None]
    ELSE IF timeout.kind = "Number"
    THEN LET remaining == timeout.n - elapsed IN
         [remaining_timeout |-> Number(remaining),
          exc |-> IF remaining < 0 THEN Some("TimeoutException") ELSE None]
    ELSE LET remaining == [i \in DOMAIN timeout.t |-> timeout.t[i] - elapsed] IN
         [remaining_timeout |-> [kind |-> "Tuple", t |-> remaining],
          exc |-> IF Min({remaining[i] : i \in DOMAIN remaining}) < 0
                  THEN Some("TimeoutException")
                  ELSE None]

\* TimeoutGuard.__exit__ for a guard built with timeout, whose suite took
\* elapsed ticks and raised exc_value (None when it raised nothing): the
\* guard's remaining_timeout afterwards and the exception that leaves the
\* with statement.
TimeoutGuard_exit(timeout, elapsed, exc_value) ==
    IF exc_value # None
    THEN [remaining_timeout |-> timeout, exc |-> exc_value]
    ELSE IF timeout.kind = "None"
    THEN [remaining_timeout |-> timeout, exc |-> None]
    ELSE IF timeout.kind = "Number"
    THEN LET remaining == timeout.n - elapsed IN
         [remaining_timeout |-> Number(remaining),
          exc |-> IF remaining <= 0 THEN Some("TimeoutException") ELSE None]
    ELSE LET remaining == [i \in DOMAIN timeout.t |-> timeout.t[i] - elapsed] IN
         [remaining_timeout |-> [kind |-> "Tuple", t |-> remaining],
          exc |-> IF Min({remaining[i] : i \in DOMAIN remaining}) <= 0
                  THEN Some("TimeoutException")
                  ELSE None]

\* ------------------------------------------------------ AuthorizedSession

VARIABLES
    now,                  \* time.time() / helpers.utcnow(), in ticks
    credentials,          \* AuthorizedSession.credentials
    max_refresh_attempts, \* AuthorizedSession.max_refresh_attempts
    refresh_status_codes, \* AuthorizedSession.refresh_status_codes
    pc,                   \* where the running call of request() stands
    frame,                \* the locals of the innermost invocation of request()
    result,               \* what the call returned, if it returned
    raised,               \* what the call raised, if it raised
    max_allowed_time,     \* history: the caller's max_allowed_time
    spent,                \* history: ticks spent in the scopes exited so far
    sends,                \* history: sends on the main transport
    forced_refreshes,     \* history: refreshes after a needs-refresh status
    scope,                \* history: the last TimeoutGuard scope that was exited
    call,                 \* history: the last call made from outside a session,
                          \* on the Credentials object or on the Flow object
    flow,                 \* the Flow object
    threads               \* the threads that share the session

vars == <<now, credentials, max_refresh_attempts, refresh_status_codes, pc,
          frame, result, raised, max_allowed_time, spent, sends,
          forced_refreshes, scope, call, flow, threads>>

session == <<max_refresh_attempts, refresh_status_codes>>

history == <<max_allowed_time, spent, sends, forced_refreshes, scope>>

\* What lies outside a session used by one caller.
outside == <<call, flow, threads>>

\* The payloads of oauthToken a login may produce.
LoginPayloads ==
    [access_token  : {Some("T0")},
     refresh_token : {None, Some("R0")},
     scope         : {None, Some(<<"a">>)},
     expires_in    : {None, Some(11)}]

\* What a POST to the token endpoint may produce: a transport failure, a
\* body without access_token, or a grant.
GrantData ==
    [access_token  : {Some("T1")},
     refresh_token : {None, Some("R1")},
     scopes        : {None, Some(<<"a">>), Some(<<"b">>)},
     expires_in    : {None, Some(5), Some(11)}]

NoAccessToken ==
    [access_token |-> None, refresh_token |-> None, scopes |-> None,
     expires_in |-> None]

TokenReplies ==
    {[kind |-> "error"]}
        \cup {[kind |-> "json", data |-> d] : d \in GrantData \cup {NoAccessToken}}

\* No request went to the token endpoint, so there is no reply.
NoReply == [kind |-> "none"]

\* The statuses the API may answer with.
Statuses == {200, 401, 403, 500}

\* The replies of the API to a request sent on the main transport.
MainReplies ==
    {[kind |-> "error"]} \cup {[kind |-> "response", status_code |-> c] : c \in Statuses}

\* The headers a caller may pass to request().
CallerHeaders == {None, ("IG-ACCOUNT-ID" :> <<"ABC123">>)}

\* The max_allowed_time a caller may pass to request(), in ticks.
CallerBudgets == {NoTimeout, Number(Ticks(1)), Pair(Ticks(1), Ticks(1) + 1)}

\* The default headers of the session's client (Flow.authorized_session).
ClientHeaders == ("X-IG-API-KEY" :> <<"key">>)

\* httpx.Client.build_request, as far as the headers go: the client's
\* default headers, overridden by the headers of the call.
build_request(headers) ==
    IF headers = None THEN ClientHeaders ELSE headers @@ ClientHeaders

\* The arguments of request() that make the request, headers apart.
Arguments(method, url, content, data, files, json, params, cookies) ==
    [method |-> method, url |-> url, content |-> content, data |-> data,
     files |-> files, json |-> json, params |-> params, cookies |-> cookies]

NoArguments == Arguments("", "", None, None, None, None, None, None)

\* session.get('/accounts', ...), the call of the test.
GetAccounts == Arguments("GET", "/accounts", None, None, None, None, None, None)

\* The calls a caller may make: with a JSON body, with form data and a
\* file, with raw content, with query parameters and cookies, or with none
\* of these.
CallerArguments ==
    {GetAccounts,
     Arguments("POST", "/positions/otc", None, None, None, Some("order"), None, None),
     Arguments("POST", "/upload", None, Some("form"), Some("file"), None, None, None),
     Arguments("PUT", "/raw", Some("bytes"), None, None, None, None, None),
     Arguments("POST", "/form", None, Some("form"), None, None, None, None),
     Arguments("GET", "/prices", None, None, None, None, Some("q=1"), Some("c=1"))}

\* The body httpx encodes for a request: content as it is, else the files
\* with the data as multipart, else the data urlencoded, else the JSON
\* text, else nothing.
encode_request(a) ==
    IF a.content # None THEN <<"content", a.content[1]>>
    ELSE IF a.files # None THEN <<"multipart", a.data, a.files[1]>>
    ELSE IF a.data # None THEN <<"urlencoded", a.data[1]>>
    ELSE IF a.json # None THEN <<"json", a.json[1]>>
    ELSE <<"empty">>

\* httpx.Client.build_request, headers apart: the method, the URL, the
\* query parameters, the cookies and the encoded body.
build_request_of(a) ==
    [method |-> a.method, url |-> a.url, params |-> a.params,
     cookies |-> a.cookies, body |-> encode_request(a)]

\* No invocation of request() is active: its locals are gone.
NoFrame ==
    [credential_refresh_attempt |-> 0,
     arguments                  |-> NoArguments,
     remaining_time             |-> NoTimeout,
     headers                    |-> None,
     request_headers            |-> ClientHeaders,
     response                   |-> None]

\* Of a scope: which one it was, whether the credentials were valid when it
\* was entered, whether Credentials.refresh was called in it, how many
\* requests went to the token endpoint, what the wrapped suite raised, and
\* the status of the response the send received.
NoScope == [name |-> "none", valid_at_entry |-> FALSE, refreshed |-> FALSE,
            posts |-> 0, exc_value |-> None, received |-> None]

\* No method of the Credentials object was called from outside a session.
NoCall == [op |-> "none"]

\* An attribute that was never assigned: reading it raises AttributeError.
Unset == <<>>

\* Flow(api_url, username, password, api_key): token is attr.ib(init=False),
\* the constructor does not set it.  fetched and failed are history: some
\* fetch_token returned, some fetch_token raised.
Flow(api_url) ==
    [api_url |-> api_url, token |-> Unset, fetched |-> FALSE, failed |-> FALSE]

\* No thread but the caller's uses the session.
NoThreads == <<>>

Init ==
    /\ now = 0
    /\ \E token \in LoginPayloads :
           credentials = from_token_response(token, Some(API_URL), 0)
    /\ max_refresh_attempts \in 0 .. MaxAttempts
    /\ refresh_status_codes \in {DEFAULT_REFRESH_STATUS_CODES, {UNAUTHORIZED, 403}}
    /\ pc = "idle"
    /\ frame = NoFrame
    /\ result = None
    /\ raised = None
    /\ max_allowed_time = NoTimeout
    /\ spent = 0
    /\ sends = 0
    /\ forced_refreshes = 0
    /\ scope = NoScope
    /\ call = NoCall
    /\ flow = Flow(API_URL)
    /\ threads = NoThreads

\* The entry of request(method, url, ..., headers=headers,
\* max_allowed_time=m, credential_refresh_attempt=attempt), up to the auth
\* gate: the request is built and the locals are set.
enter_request(arguments, headers, m, attempt) ==
    [credential_refresh_attempt |-> attempt,
     arguments                  |-> arguments,
     remaining_time             |-> m,
     headers                    |-> headers,
     request_headers            |-> build_request(headers),
     response                   |-> None]

\* original_headers = request.headers binds a second name to the Headers
\* object of the request: read later, it shows what the object holds then.
original_headers == frame.request_headers

\* Variant: a timeout is noted and the call goes on.
leave_scope_past_timeout(g, next, f) ==
    IF g.exc # None /\ g.exc # Some("TimeoutException")
    THEN /\ pc' = "raised"
         /\ raised' = g.exc
         /\ frame' = NoFrame
    ELSE /\ pc' = next
         /\ raised' = g.exc
         /\ frame' = [f EXCEPT !.remaining_time = g.remaining_timeout]

\* Variant: a RefreshError is caught and the call goes on.
leave_scope_past_refresh_error(g, next, f) ==
    IF g.exc # None /\ g.exc # Some("RefreshError")
    THEN /\ pc' = "raised"
         /\ raised' = g.exc
         /\ frame' = NoFrame
    ELSE /\ pc' = next
         /\ UNCHANGED raised
         /\ frame' = [f EXCEPT !.remaining_time = g.remaining_timeout]

\* Leaving a with TimeoutGuard(...) statement: an exception unwinds every
\* invocation and ends the call; otherwise the invocation goes on at next,
\* with the locals f and remaining_time = guard.remaining_timeout.
leave_scope(g, next, f) ==
    IF g.exc # None
    THEN /\ pc' = "raised"
         /\ raised' = g.exc
         /\ frame' = NoFrame
    ELSE /\ pc' = next
         /\ UNCHANGED raised
         /\ frame' = [f EXCEPT !.remaining_time = g.remaining_timeout]

\* The caller starts request(method, url, ..., headers=h,
\* max_allowed_time=m) with the arguments a.
Call(a, h, m) ==
    /\ pc = "idle"
    /\ frame' = enter_request(a, h, m, 0)
    /\ max_allowed_time' = m
    /\ pc' = "gate"
    /\ UNCHANGED <<now, credentials, session, result, raised, spent, sends,
                   forced_refreshes, scope, outside>>

\* with TimeoutGuard(remaining_time): credentials.before_request(...).
\* A refresh that reaches the token endpoint gets reply after d ticks.
AuthGate(reply, d) ==
    /\ pc = "gate"
    /\ LET posts   == ~valid(credentials, now) /\ can_refresh(credentials)
           elapsed == IF posts THEN d ELSE 0
           b == before_request(credentials, frame.request_headers, reply,
                               now, now + elapsed)
           g == TimeoutGuard_exit(frame.remaining_time, elapsed, b.exc)
       IN  /\ IF posts THEN reply # NoReply ELSE reply = NoReply /\ d = 0
           /\ now + elapsed <= MaxTime
           /\ now' = now + elapsed
           /\ credentials' = b.credentials
           /\ spent' = spent + elapsed
           /\ scope' = [name |-> "gate", valid_at_entry |-> valid(credentials, now),
                        refreshed |-> b.refreshed, posts |-> b.posts,
                        exc_value |-> b.exc, received |-> None]
           /\ leave_scope(g, "send", [frame EXCEPT !.request_headers = b.headers])
    /\ UNCHANGED <<session, result, max_allowed_time, sends, forced_refreshes, outside>>

\* Variant: the attempt that is about to be made counts as one already.
needs_refresh_once_less(status_code, attempt) ==
    /\ status_code \in refresh_status_codes
    /\ attempt + 1 < max_refresh_attempts

\* Variant: the number of attempts is not looked at.
needs_refresh_unbounded(status_code, attempt) ==
    status_code \in refresh_status_codes

\* Variant: every error status asks for a refresh.
needs_refresh_any_error(status_code, attempt) ==
    /\ status_code >= 400
    /\ attempt < max_refresh_attempts

\* The test after the send: does the response ask for a refresh and a retry?
needs_refresh(status_code, attempt) ==
    /\ status_code \in refresh_status_codes
    /\ attempt < max_refresh_attempts

\* with TimeoutGuard(remaining_time): response = self.send(request, ...),
\* and the test that follows: on to the forced refresh, or return response.
Send(reply, d) ==
    /\ pc = "send"
    /\ now + d <= MaxTime
    /\ now' = now + d
    /\ sends' = sends + 1
    /\ spent' = spent + d
    /\ LET exc_value == IF reply.kind = "error" THEN Some("TransportError") ELSE None
           received  == IF reply.kind = "error" THEN None ELSE Some(reply.status_code)
           g == TimeoutGuard_exit(frame.remaining_time, d, exc_value)
       IN  /\ scope' = [name |-> "send", valid_at_entry |-> FALSE,
                        refreshed |-> FALSE, posts |-> 0, exc_value |-> exc_value,
                        received |-> received]
           /\ IF g.exc # None
                 \/ needs_refresh(reply.status_code, frame.credential_refresh_attempt)
              THEN /\ leave_scope(g, "refresh",
                                  [frame EXCEPT !.response = received])
                   /\ UNCHANGED result
              ELSE /\ pc' = "done"
                   /\ result' = Some(reply.status_code)
                   /\ frame' = NoFrame
                   /\ UNCHANGED raised
    /\ UNCHANGED <<credentials, session, max_allowed_time, forced_refreshes, outside>>

\* Variant: the refresh is skipped while the credentials look valid.
forced_refresh_if_invalid(self, reply, t) ==
    IF valid(self, now)
    THEN [credentials |-> self, exc |-> None, posts |-> 0]
    ELSE refresh(self, reply, t)

\* self.credentials.refresh(auth_request) of the retry branch: called
\* whatever Credentials.valid says.
forced_refresh(self, reply, t) == refresh(self, reply, t)

\* with TimeoutGuard(remaining_time): self.credentials.refresh(auth_request).
ForcedRefresh(reply, d) ==
    /\ pc = "refresh"
    /\ LET elapsed == IF can_refresh(credentials) THEN d ELSE 0
           r == forced_refresh(credentials, reply, now + elapsed)
           g == TimeoutGuard_exit(frame.remaining_time, elapsed, r.exc)
       IN  /\ IF can_refresh(credentials)
              THEN reply # NoReply
              ELSE reply = NoReply /\ d = 0
           /\ now + elapsed <= MaxTime
           /\ now' = now + elapsed
           /\ credentials' = r.credentials
           /\ forced_refreshes' = forced_refreshes + 1
           /\ spent' = spent + elapsed
           /\ scope' = [name |-> "refresh", valid_at_entry |-> valid(credentials, now),
                        refreshed |-> TRUE, posts |-> r.posts, exc_value |-> r.exc,
                        received |-> None]
           /\ leave_scope(g, "recurse", frame)
    /\ UNCHANGED <<session, result, max_allowed_time, sends, outside>>

\* Variant: the retry starts again from the caller's budget.
retry_max_allowed_time_reset == max_allowed_time

\* max_allowed_time=remaining_time of the recursive call.
retry_max_allowed_time == frame.remaining_time

\* self.request(method, url, data=data, ...): of the arguments that make
\* the request, the recursive call is given method, url and data.
retry_arguments ==
    Arguments(frame.arguments.method, frame.arguments.url, None,
              frame.arguments.data, None, None, None, None)

\* return self.request(method, url, data=data, headers=original_headers,
\* max_allowed_time=remaining_time, credential_refresh_attempt=... + 1): the
\* entry of the recursive invocation, up to its auth gate.
Recurse ==
    /\ pc = "recurse"
    /\ frame' = enter_request(retry_arguments, original_headers,
                              retry_max_allowed_time,
                              frame.credential_refresh_attempt + 1)
    /\ pc' = "gate"
    /\ UNCHANGED <<now, credentials, session, result, raised, history, outside>>

\* The caller has the outcome of the call, a response or an exception.
Return ==
    /\ pc \in {"done", "raised"}
    /\ pc' = "idle"
    /\ result' = None
    /\ raised' = None
    /\ max_allowed_time' = NoTimeout
    /\ spent' = 0
    /\ sends' = 0
    /\ forced_refreshes' = 0
    /\ scope' = NoScope
    /\ UNCHANGED <<now, credentials, session, frame, outside>>

\* Time passes between two calls.
Tick ==
    /\ pc = "idle"
    /\ now < MaxTime
    /\ now' = now + 1
    /\ UNCHANGED <<credentials, session, pc, frame, result, raised, history, outside>>

Next ==
    \/ \E h \in CallerHeaders, m \in CallerBudgets : Call(GetAccounts, h, m)
    \/ \E reply \in TokenReplies \cup {NoReply}, d \in 0 .. MaxStep : AuthGate(reply, d)
    \/ \E reply \in MainReplies, d \in 0 .. MaxStep : Send(reply, d)
    \/ \E reply \in TokenReplies \cup {NoReply}, d \in 0 .. MaxStep :
           ForcedRefresh(reply, d)
    \/ Recurse
    \/ Return
    \/ Tick

Spec == Init /\ [][Next]_vars

\* The steps of a running call.  Each of them ends once the transport call
\* it waits for returns.
CallStep ==
    \/ \E reply \in TokenReplies \cup {NoReply}, d \in 0 .. MaxStep : AuthGate(reply, d)
    \/ \E reply \in MainReplies, d \in 0 .. MaxStep : Send(reply, d)
    \/ \E reply \in TokenReplies \cup {NoReply}, d \in 0 .. MaxStep :
           ForcedRefresh(reply, d)
    \/ Recurse

\* Every transport call returns, and the interpreter keeps running the call.
FairSpec == Spec /\ WF_vars(CallStep)

\* A session whose caller passes bodies, query parameters and cookies: the
\* credentials have a refresh_token and the session its default status
\* codes.
ReplayInit ==
    /\ Init
    /\ credentials.refresh_token # None
    /\ max_refresh_attempts = DEFAULT_MAX_REFRESH_ATTEMPTS
    /\ refresh_status_codes = DEFAULT_REFRESH_STATUS_CODES

ReplayNext ==
    \/ \E a \in CallerArguments, h \in CallerHeaders : Call(a, h, NoTimeout)
    \/ \E reply \in TokenReplies \cup {NoReply}, d \in 0 .. MaxStep : AuthGate(reply, d)
    \/ \E reply \in MainReplies, d \in 0 .. MaxStep : Send(reply, d)
    \/ \E reply \in TokenReplies \cup {NoReply}, d \in 0 .. MaxStep :
           ForcedRefresh(reply, d)
    \/ Recurse
    \/ Return
    \/ Tick

ReplaySpec == ReplayInit /\ [][ReplayNext]_vars

\* ------------------------------------------------- the Credentials object

\* Credentials(token, refresh_token, scopes, token_uri, expiry=None): the
\* constructor attr.s generates.
Credentials(token, refresh_token, scopes, token_uri, expiry) ==
    [token         |-> token,
     refresh_token |-> refresh_token,
     token_uri     |-> token_uri,
     scopes        |-> scopes,
     expiry        |-> expiry]

\* The scope strings "a", "ab", "a b" and "b a".
ScopeA == <<"a">>

ScopeAB == <<"a", "b">>

ScopeA_B == <<"a", " ", "b">>

ScopeB_A == <<"b", " ", "a">>

\* The token payloads a Credentials object may be built from.
TokenPayloads ==
    [access_token  : {Some("T0")},
     refresh_token : {None, Some("R0")},
     scope         : {None, Some(ScopeA), Some(ScopeAB), Some(ScopeA_B)},
     expires_in    : {None, Some(11)}]

\* The JSON bodies the token endpoint may answer a refresh with.
GrantResponses ==
    [access_token  : {Some("T1")},
     refresh_token : {None, Some("R1")},
     scopes        : {None, Some(ScopeA), Some(ScopeAB), Some(ScopeB_A)},
     expires_in    : {None, Some(11)}]

\* What a POST to the token endpoint may produce, with the status of the
\* response: a transport failure, a grant, or a JSON body without
\* access_token.
TokenEndpointReplies ==
    {[kind |-> "error"]}
        \cup {[kind |-> "json", status_code |-> 200, data |-> d] : d \in GrantResponses}
        \cup {[kind |-> "json", status_code |-> c, data |-> NoAccessToken] :
                  c \in {200, UNAUTHORIZED, 500}}

\* The Credentials objects a program may hold at time 0: built from a token
\* payload, with or without a token_uri, or built with the constructor
\* without a token yet.
CredentialsObjects ==
    {from_token_response(token, token_uri, 0) :
         token \in TokenPayloads, token_uri \in {None, Some(API_URL)}}
        \cup {Credentials(None, refresh_token, None, Some(API_URL), None) :
                  refresh_token \in {None, Some("R0")}}

CredentialsInit ==
    /\ now = 0
    /\ credentials \in CredentialsObjects
    /\ max_refresh_attempts = DEFAULT_MAX_REFRESH_ATTEMPTS
    /\ refresh_status_codes = DEFAULT_REFRESH_STATUS_CODES
    /\ pc = "idle"
    /\ frame = NoFrame
    /\ result = None
    /\ raised = None
    /\ max_allowed_time = NoTimeout
    /\ spent = 0
    /\ sends = 0
    /\ forced_refreshes = 0
    /\ scope = NoScope
    /\ call = NoCall
    /\ flow = Flow(API_URL)
    /\ threads = NoThreads

\* credentials.refresh(request), called on the object: the POST, if one is
\* made, gets reply after d ticks.
Credentials_refresh(reply, d) ==
    /\ LET elapsed == IF can_refresh(credentials) THEN d ELSE 0
           r == refresh(credentials, reply, now + elapsed)
       IN  /\ IF can_refresh(credentials)
              THEN reply # NoReply
              ELSE reply = NoReply /\ d = 0
           /\ now + elapsed <= MaxTime
           /\ now' = now + elapsed
           /\ credentials' = r.credentials
           /\ call' = [op |-> "refresh", before |-> credentials, t0 |-> now,
                       t |-> now + elapsed,
                       reply |-> reply, exc |-> r.exc, posts |-> r.posts,
                       refreshed |-> TRUE, headers |-> None]
    /\ UNCHANGED <<session, pc, frame, result, raised, history, flow, threads>>

\* credentials.before_request(request, method, url, headers), called on the
\* object with the headers of a request built by the client.
Credentials_before_request(reply, d) ==
    /\ LET posts   == ~valid(credentials, now) /\ can_refresh(credentials)
           elapsed == IF posts THEN d ELSE 0
           b == before_request(credentials, ClientHeaders, reply, now, now + elapsed)
       IN  /\ IF posts THEN reply # NoReply ELSE reply = NoReply /\ d = 0
           /\ now + elapsed <= MaxTime
           /\ now' = now + elapsed
           /\ credentials' = b.credentials
           /\ call' = [op |-> "before_request", before |-> credentials, t0 |-> now,
                       t |-> now + elapsed,
                       reply |-> reply, exc |-> b.exc, posts |-> b.posts,
                       refreshed |-> b.refreshed, headers |-> Some(b.headers)]
    /\ UNCHANGED <<session, pc, frame, result, raised, history, flow, threads>>

\* getattr(self, name): reading an attribute the object does not have raises
\* AttributeError.
getattr(self, name) ==
    IF name \in DOMAIN self
    THEN [exc |-> None, value |-> self[name]]
    ELSE [exc |-> Some("AttributeError"), value |-> None]

\* json.dumps(prep) for the dict that to_json prepares: members are
\* <<key, attribute>> pairs in the order of the dict, an entry whose value
\* is None is removed and so is an entry whose key is in strip.  The JSON
\* text is the sequence of its "key": value members.
json_dumps_prep(self, members, strip) ==
    IF \E i \in DOMAIN members : getattr(self, members[i][2]).exc # None
    THEN [exc |-> Some("AttributeError"), text |-> None]
    ELSE LET kept(m) == /\ self[m[2]] # None
                        /\ (strip = None \/ m[1] \notin strip[1])
             prep == SelectSeq(members, kept)
         IN  [exc  |-> None,
              text |-> Some([i \in DOMAIN prep |->
                                <<prep[i][1], self[prep[i][2]][1]>>])]

\* json.loads of such a text: the dict of its members.
json_loads(text) ==
    [k \in {text[i][1] : i \in DOMAIN text} |->
         (CHOOSE m \in {text[i] : i \in DOMAIN text} : m[1] = k)[2]]

\* dict.get(key): None when the dict has no such key.
get(dict, key) == IF key \in DOMAIN dict THEN Some(dict[key]) ELSE None

\* Credentials.to_json(strip) of ig_markets_auth.
to_json(self, strip) ==
    json_dumps_prep(self,
                    <<<<"token", "token">>, <<"refresh_token", "refresh_token">>,
                      <<"scopes", "scopes">>>>,
                    strip)

\* Credentials.to_json(strip) of ig_markets_api: the dict is built from
\* self.token, self.refresh_token, self.username, self.pasword and
\* self.scopes.
api_to_json(self, strip) ==
    json_dumps_prep(self,
                    <<<<"token", "token">>, <<"refresh_token", "refresh_token">>,
                      <<"username", "username">>, <<"password", "pasword">>,
                      <<"scopes", "scopes">>>>,
                    strip)

\* What a caller may pass as strip: nothing, or a list of member names.
Strips ==
    {None, Some({"token"}), Some({"scopes"}), Some({"token", "refresh_token"})}

\* credentials.to_json(strip), called on the object.
Credentials_to_json(strip) ==
    /\ LET j == to_json(credentials, strip) IN
       call' = [op |-> "to_json", before |-> credentials, strip |-> strip,
                exc |-> j.exc, text |-> j.text]
    /\ UNCHANGED <<now, credentials, session, pc, frame, result, raised, history,
                   flow, threads>>

CredentialsNext ==
    \/ \E reply \in TokenEndpointReplies \cup {NoReply}, d \in 0 .. MaxStep :
           Credentials_refresh(reply, d)
    \/ \E reply \in TokenEndpointReplies \cup {NoReply}, d \in 0 .. MaxStep :
           Credentials_before_request(reply, d)
    \/ \E strip \in Strips : Credentials_to_json(strip)
    \/ Tick

\* A Credentials object used on its own: its methods are called one after
\* another while time passes.
CredentialsSpec == CredentialsInit /\ [][CredentialsNext]_vars

\* ------------------------------- the Credentials of ig_markets_api.auth

\* @retry(stop=stop_after_attempt(2))
STOP_AFTER_ATTEMPT == 2

\* What Credentials.refresh may get as request: the httpx.Client that
\* AuthorizedSession passes (self.auth_request), or a callable that sends
\* with such a client and returns its httpx.Response.
Transports == {"Client", "callable"}

\* What one attempt of a callable transport may get.
ApiReplies ==
    {[kind |-> "error"],
     [kind |-> "json", status_code |-> 200,
      data |-> [access_token |-> Some("T1"), refresh_token |-> None,
                scopes |-> None, expires_in |-> None]],
     [kind |-> "json", status_code |-> UNAUTHORIZED, data |-> NoAccessToken]}

\* The body of token_endpoint_request, run once: calling an httpx.Client is
\* a TypeError; raise_for_status raises on a status that is not 2xx; an
\* httpx.Response has no attribute data.
token_endpoint_attempt(request, reply) ==
    IF request = "Client"
    THEN [exc |-> Some("TypeError"), posts |-> 0]
    ELSE IF reply.kind = "error"
    THEN [exc |-> Some("TransportError"), posts |-> 1]
    ELSE IF reply.status_code \notin 200 .. 299
    THEN [exc |-> Some("HTTPStatusError"), posts |-> 1]
    ELSE [exc |-> Some("AttributeError"), posts |-> 1]

\* token_endpoint_request under its retry decorator: an attempt that raises
\* is followed by another one until STOP_AFTER_ATTEMPT attempts were made,
\* then RetryError is raised.  replies[i] is what attempt i gets.
RECURSIVE token_endpoint_request(_, _, _)
token_endpoint_request(request, replies, attempt_number) ==
    LET a == token_endpoint_attempt(request, replies[attempt_number]) IN
    IF a.exc = None
    THEN [exc |-> None, posts |-> a.posts, attempts |-> attempt_number]
    ELSE IF attempt_number >= STOP_AFTER_ATTEMPT
    THEN [exc |-> Some("RetryError"), posts |-> a.posts, attempts |-> attempt_number]
    ELSE LET rest == token_endpoint_request(request, replies, attempt_number + 1) IN
         [exc |-> rest.exc, posts |-> a.posts + rest.posts, attempts |-> rest.attempts]

\* Credentials.refresh of ig_markets_api.auth.credentials, on an object whose
\* client_id, client_secret and api_key are set: no attempt of
\* token_endpoint_request returns, so nothing is assigned.
api_refresh(self, request, replies) ==
    IF ~can_refresh(self)
    THEN [credentials |-> self, exc |-> Some("RefreshError"), posts |-> 0,
          attempts |-> 0]
    ELSE LET r == token_endpoint_request(request, replies, 1) IN
         [credentials |-> self, exc |-> r.exc, posts |-> r.posts,
          attempts |-> r.attempts]

\* No attempt got a reply.
NoReplies == [i \in 1 .. STOP_AFTER_ATTEMPT |-> NoReply]

\* credentials.refresh(request), called on an object of ig_markets_api.
Api_refresh(request, replies) ==
    /\ IF can_refresh(credentials) /\ request = "callable"
       THEN \A i \in DOMAIN replies : replies[i] # NoReply
       ELSE replies = NoReplies
    /\ LET r == api_refresh(credentials, request, replies) IN
       /\ credentials' = r.credentials
       /\ call' = [op |-> "api_refresh", before |-> credentials, t |-> now,
                   request |-> request, replies |-> replies, exc |-> r.exc,
                   posts |-> r.posts, attempts |-> r.attempts]
    /\ UNCHANGED <<now, session, pc, frame, result, raised, history, flow, threads>>

\* credentials.to_json(strip), called on an object of ig_markets_api.
Api_to_json(strip) ==
    /\ LET j == api_to_json(credentials, strip) IN
       call' = [op |-> "api_to_json", before |-> credentials, strip |-> strip,
                exc |-> j.exc, text |-> j.text]
    /\ UNCHANGED <<now, credentials, session, pc, frame, result, raised, history,
                   flow, threads>>

ApiNext ==
    \/ \E request \in Transports,
          replies \in [1 .. STOP_AFTER_ATTEMPT -> ApiReplies \cup {NoReply}] :
           Api_refresh(request, replies)
    \/ \E strip \in Strips : Api_to_json(strip)
    \/ Tick

\* A Credentials object of ig_markets_api used on its own.
ApiSpec == CredentialsInit /\ [][ApiNext]_vars

\* ---------------------------------------------------------------- the Flow

\* What the POST to /session may produce: a transport failure, or a
\* response with a status and, in its JSON body, an oauthToken.
LoginReplies ==
    {[kind |-> "error"]}
        \cup {[kind |-> "response", status_code |-> c, oauthToken |-> token] :
                  c \in {200, UNAUTHORIZED, 500}, token \in LoginPayloads}

\* Variant: the token of the body is stored before the status is looked at.
fetch_token_stores_first(self, reply) ==
    IF reply.kind = "error"
    THEN [flow |-> [self EXCEPT !.failed = TRUE],
          exc |-> Some("TransportError"), value |-> None]
    ELSE IF reply.status_code \notin 200 .. 299
    THEN [flow |-> [self EXCEPT !.token = Some(reply.oauthToken), !.failed = TRUE],
          exc |-> Some("HTTPStatusError"), value |-> None]
    ELSE [flow |-> [self EXCEPT !.token = Some(reply.oauthToken), !.fetched = TRUE],
          exc |-> None, value |-> Some(reply.oauthToken)]

\* Flow.fetch_token(): the flow after the call, the exception it raised and
\* the value it returned.
fetch_token(self, reply) ==
    IF reply.kind = "error"
    THEN [flow |-> [self EXCEPT !.failed = TRUE],
          exc |-> Some("TransportError"), value |-> None]
    ELSE IF reply.status_code \notin 200 .. 299
    THEN [flow |-> [self EXCEPT !.failed = TRUE],
          exc |-> Some("HTTPStatusError"), value |-> None]
    ELSE [flow |-> [self EXCEPT !.token = Some(reply.oauthToken), !.fetched = TRUE],
          exc |-> None, value |-> Some(reply.oauthToken)]

\* The truth value of a dict: it has a key.
truthy(dict) == \E k \in DOMAIN dict : dict[k] # None

\* The property Flow.credentials, read at time t.
Flow_credentials(self, t) ==
    IF self.token = Unset
    THEN [exc |-> Some("AttributeError"), value |-> None]
    ELSE IF ~truthy(self.token[1])
    THEN [exc |-> Some("ValueError"), value |-> None]
    ELSE [exc |-> None,
          value |-> Some(from_token_response(self.token[1], Some(self.api_url), t))]

\* Flow.authorized_session() at time t: the credentials, the base_url and
\* the headers the session is built with.
authorized_session(self, t) ==
    LET c == Flow_credentials(self, t) IN
    IF c.exc # None
    THEN c
    ELSE [exc |-> None,
          value |-> Some([credentials |-> c.value[1], base_url |-> self.api_url,
                          headers |-> ClientHeaders])]

\* No session was built yet, so it has no credentials.
NoCredentials == Credentials(None, None, None, None, None)

FlowInit ==
    /\ now = 0
    /\ credentials = NoCredentials
    /\ max_refresh_attempts = DEFAULT_MAX_REFRESH_ATTEMPTS
    /\ refresh_status_codes = DEFAULT_REFRESH_STATUS_CODES
    /\ pc = "idle"
    /\ frame = NoFrame
    /\ result = None
    /\ raised = None
    /\ max_allowed_time = NoTimeout
    /\ spent = 0
    /\ sends = 0
    /\ forced_refreshes = 0
    /\ scope = NoScope
    /\ call = NoCall
    /\ flow = Flow(API_URL)
    /\ threads = NoThreads

\* flow.fetch_token()
FetchToken(reply) ==
    /\ LET f == fetch_token(flow, reply) IN
       /\ flow' = f.flow
       /\ call' = [op |-> "fetch_token", t |-> now, reply |-> reply,
                   before |-> flow, exc |-> f.exc, value |-> f.value]
    /\ UNCHANGED <<now, credentials, session, pc, frame, result, raised, history,
                   threads>>

\* flow.credentials
GetCredentials ==
    /\ LET c == Flow_credentials(flow, now) IN
       call' = [op |-> "credentials", t |-> now, reply |-> NoReply,
                before |-> flow, exc |-> c.exc, value |-> c.value]
    /\ UNCHANGED <<now, credentials, session, pc, frame, result, raised, history,
                   flow, threads>>

\* session = flow.authorized_session()
NewSession ==
    /\ LET a == authorized_session(flow, now) IN
       /\ call' = [op |-> "authorized_session", t |-> now, reply |-> NoReply,
                   before |-> flow, exc |-> a.exc, value |-> a.value]
       /\ credentials' = IF a.exc = None THEN a.value[1].credentials ELSE credentials
    /\ UNCHANGED <<now, session, pc, frame, result, raised, history, flow, threads>>

FlowNext ==
    \/ \E reply \in LoginReplies : FetchToken(reply)
    \/ GetCredentials
    \/ NewSession
    \/ Tick

\* A Flow object: its methods are called in any order while time passes.
FlowSpec == FlowInit /\ [][FlowNext]_vars

\* ------------------------------------------- two threads and one session

\* The two threads that call request() on one shared session.
Threads == 1 .. 2

\* What the token endpoint may answer a thread's refresh with.
RaceReplies ==
    {[kind |-> "error"],
     [kind |-> "json",
      data |-> [access_token |-> Some("T1"), refresh_token |-> Some("R1"),
                scopes |-> None, expires_in |-> Some(11)]],
     [kind |-> "json",
      data |-> [access_token |-> Some("T2"), refresh_token |-> Some("R2"),
                scopes |-> None, expires_in |-> None]]}

\* A thread about to enter Credentials.before_request: where it stands,
\* whether it found the credentials not valid, the refresh_token it passed
\* to refresh_grant, what refresh_grant returned to it, what it raised and
\* the token it applied.
Thread ==
    [pc |-> "before_request", saw_invalid |-> FALSE, refresh_token |-> None,
     grant |-> None, exc |-> None, applied |-> None]

\* The threads, and as history: the thread that assigned each field last
\* (0: none did) and the threads that completed the assignments, in order.
ThreadsInit ==
    [of |-> [i \in Threads |-> Thread],
     last |-> [token |-> 0, expiry |-> 0, refresh_token |-> 0],
     finished |-> <<>>]

RaceInit ==
    /\ now = 0
    /\ \E token \in LoginPayloads :
           credentials = from_token_response(token, Some(API_URL), 0)
    /\ max_refresh_attempts = DEFAULT_MAX_REFRESH_ATTEMPTS
    /\ refresh_status_codes = DEFAULT_REFRESH_STATUS_CODES
    /\ pc = "idle"
    /\ frame = NoFrame
    /\ result = None
    /\ raised = None
    /\ max_allowed_time = NoTimeout
    /\ spent = 0
    /\ sends = 0
    /\ forced_refreshes = 0
    /\ scope = NoScope
    /\ call = NoCall
    /\ flow = Flow(API_URL)
    /\ threads = ThreadsInit

\* A step of thread i that changes its own state to th and leaves the
\* history alone.
thread_step(i, th) == threads' = [threads EXCEPT !.of[i] = th]

\* if not self.valid: (before_request)
Thread_valid(i) ==
    /\ threads.of[i].pc = "before_request"
    /\ IF valid(credentials, now)
       THEN thread_step(i, [threads.of[i] EXCEPT !.pc = "apply"])
       ELSE thread_step(i, [threads.of[i] EXCEPT !.pc = "refresh",
                                                 !.saw_invalid = TRUE])
    /\ UNCHANGED <<now, credentials, session, pc, frame, result, raised, history,
                   call, flow>>

\* The entry of self.refresh(request): the check of the fields, and the
\* arguments of refresh_grant, read from the object.
Thread_refresh(i) ==
    /\ threads.of[i].pc = "refresh"
    /\ IF ~can_refresh(credentials)
       THEN thread_step(i, [threads.of[i] EXCEPT !.pc = "raised",
                                                 !.exc = Some("RefreshError")])
       ELSE thread_step(i, [threads.of[i] EXCEPT
                                !.pc = "refresh_grant",
                                !.refresh_token = credentials.refresh_token])
    /\ UNCHANGED <<now, credentials, session, pc, frame, result, raised, history,
                   call, flow>>

\* refresh_grant(request, token_uri, refresh_token, scopes): the POST and
\* the parsing of its reply.
Thread_refresh_grant(i, reply) ==
    /\ threads.of[i].pc = "refresh_grant"
    /\ LET g == refresh_grant(threads.of[i].refresh_token[1], reply, now) IN
       IF g.exc # None
       THEN thread_step(i, [threads.of[i] EXCEPT !.pc = "raised", !.exc = g.exc])
       ELSE thread_step(i, [threads.of[i] EXCEPT !.pc = "token", !.grant = Some(g)])
    /\ UNCHANGED <<now, credentials, session, pc, frame, result, raised, history,
                   call, flow>>

\* Variant: a token that is there is kept.
assign_token_if_absent(self, g) ==
    IF self.token = None THEN [self EXCEPT !.token = g.access_token] ELSE self

\* self.token = access_token
assign_token(self, g) == [self EXCEPT !.token = g.access_token]

\* self.expiry = expiry
assign_expiry(self, g) == [self EXCEPT !.expiry = g.expiry]

\* self.refresh_token = refresh_token
assign_refresh_token(self, g) == [self EXCEPT !.refresh_token = g.refresh_token]

Thread_token(i) ==
    /\ threads.of[i].pc = "token"
    /\ credentials' = assign_token(credentials, threads.of[i].grant[1])
    /\ threads' = [threads EXCEPT !.of[i].pc = "expiry", !.last.token = i]
    /\ UNCHANGED <<now, session, pc, frame, result, raised, history, call, flow>>

Thread_expiry(i) ==
    /\ threads.of[i].pc = "expiry"
    /\ credentials' = assign_expiry(credentials, threads.of[i].grant[1])
    /\ threads' = [threads EXCEPT !.of[i].pc = "refresh_token", !.last.expiry = i]
    /\ UNCHANGED <<now, session, pc, frame, result, raised, history, call, flow>>

Thread_refresh_token(i) ==
    /\ threads.of[i].pc = "refresh_token"
    /\ credentials' = assign_refresh_token(credentials, threads.of[i].grant[1])
    /\ threads' = [threads EXCEPT !.of[i].pc = "scopes",
                                  !.last.refresh_token = i,
                                  !.finished = Append(@, i)]
    /\ UNCHANGED <<now, session, pc, frame, result, raised, history, call, flow>>

\* The scope check at the end of refresh.
Thread_scopes(i) ==
    /\ threads.of[i].pc = "scopes"
    /\ IF scopes_requested_but_not_granted(
              credentials, threads.of[i].grant[1].grant_response) # {}
       THEN thread_step(i, [threads.of[i] EXCEPT !.pc = "raised",
                                                 !.exc = Some("RefreshError")])
       ELSE thread_step(i, [threads.of[i] EXCEPT !.pc = "apply"])
    /\ UNCHANGED <<now, credentials, session, pc, frame, result, raised, history,
                   call, flow>>

\* self.apply(headers)
Thread_apply(i) ==
    /\ threads.of[i].pc = "apply"
    /\ LET a == apply(credentials, ClientHeaders) IN
       IF a.exc # None
       THEN thread_step(i, [threads.of[i] EXCEPT !.pc = "raised", !.exc = a.exc])
       ELSE thread_step(i, [threads.of[i] EXCEPT
                                !.pc = "send",
                                !.applied = Some(a.headers["Authorization"][2])])
    /\ UNCHANGED <<now, credentials, session, pc, frame, result, raised, history,
                   call, flow>>

\* Time passes while the threads run.
Elapse ==
    /\ now < MaxTime
    /\ now' = now + 1
    /\ UNCHANGED <<credentials, session, pc, frame, result, raised, history, outside>>

RaceNext ==
    \/ \E i \in Threads : Thread_valid(i)
    \/ \E i \in Threads : Thread_refresh(i)
    \/ \E i \in Threads, reply \in RaceReplies : Thread_refresh_grant(i, reply)
    \/ \E i \in Threads : Thread_token(i)
    \/ \E i \in Threads : Thread_expiry(i)
    \/ \E i \in Threads : Thread_refresh_token(i)
    \/ \E i \in Threads : Thread_scopes(i)
    \/ \E i \in Threads : Thread_apply(i)
    \/ Elapse

\* Two threads in Credentials.before_request of one shared session, their
\* steps interleaved in any order.
RaceSpec == RaceInit /\ [][RaceNext]_vars

\* ------------------------------------------------------------ properties

Timeout == Some("TimeoutException")

RefreshError == Some("RefreshError")

\* The call is between its entry and its outcome.
Running == pc \in {"gate", "send", "refresh", "recurse"}

\* The step leaves a with TimeoutGuard(...) statement.
ScopeStep == pc \in {"gate", "send", "refresh"} /\ pc' # pc

DefaultConfig ==
    /\ max_refresh_attempts = DEFAULT_MAX_REFRESH_ATTEMPTS
    /\ refresh_status_codes = DEFAULT_REFRESH_STATUS_CODES

\* C1 as stated: with the default configuration a call makes at most one
\* forced refresh and one retry, and a 401 to the first retry is returned.
C1_Original ==
    DefaultConfig =>
        /\ forced_refreshes <= 1
        /\ sends <= 2
        /\ (pc = "refresh" => frame.credential_refresh_attempt = 0)

\* C1, amended: with the default configuration (max_refresh_attempts = 2,
\* refresh statuses {401}) every 401 received while fewer than two retries
\* were made leads to a forced refresh (and, when it succeeds, a retry); a
\* 401 is returned only as the third consecutive 401, after exactly two
\* forced refreshes and three sends, and at most two forced refreshes and
\* three sends are ever made.
C1_DefaultRetries ==
    DefaultConfig =>
        /\ forced_refreshes <= 2
        /\ sends <= 3
        /\ (pc = "refresh" =>
                /\ frame.response = Some(UNAUTHORIZED)
                /\ frame.credential_refresh_attempt \in {0, 1})
        /\ (scope.received = Some(UNAUTHORIZED) /\ sends < 3 /\ raised = None =>
                pc = "refresh")
        /\ (pc = "done" /\ result = Some(UNAUTHORIZED) =>
                /\ forced_refreshes = 2
                /\ sends = 3)

C1_Witness ==
    /\ DefaultConfig
    /\ pc = "done"
    /\ result = Some(UNAUTHORIZED)
    /\ forced_refreshes = 2
    /\ sends = 3

\* C2: whatever the server answers and whatever max_refresh_attempts = N is,
\* one call makes at most N forced refreshes and N + 1 sends,
\* credential_refresh_attempt grows by exactly one per retry and by nothing
\* else, and a call that was started ends (returns or raises).
C2_BoundedRetries ==
    /\ [](/\ forced_refreshes <= max_refresh_attempts
          /\ sends <= max_refresh_attempts + 1
          /\ frame.credential_refresh_attempt <= max_refresh_attempts
          /\ (Running /\ pc # "recurse" =>
                  forced_refreshes = frame.credential_refresh_attempt)
          /\ (pc = "recurse" =>
                  forced_refreshes = frame.credential_refresh_attempt + 1)
          /\ (pc \in {"gate", "send"} => sends = frame.credential_refresh_attempt)
          /\ (pc \in {"refresh", "recurse"} =>
                  sends = frame.credential_refresh_attempt + 1)
          /\ (pc = "done" => sends = forced_refreshes + 1))
    /\ [][/\ (pc = "recurse" =>
                  frame'.credential_refresh_attempt
                      = frame.credential_refresh_attempt + 1)
          /\ (Running /\ pc # "recurse" /\ pc' \in {"send", "refresh", "recurse"} =>
                  frame'.credential_refresh_attempt
                      = frame.credential_refresh_attempt)]_vars
    /\ (Running ~> pc \in {"done", "raised"})

C2_Witness ==
    /\ max_refresh_attempts = MaxAttempts
    /\ pc = "done"
    /\ forced_refreshes = max_refresh_attempts
    /\ sends = max_refresh_attempts + 1

\* C3 as stated: the headers a retry starts from never contain the
\* Authorization header that Credentials.apply added in the attempt before.
C3_RetryBaseHasNoAuthorization ==
    frame.credential_refresh_attempt > 0 => "Authorization" \notin DOMAIN frame.headers

\* The smallest component of a budget that is not None.
MinBudget(m) == IF m.kind = "Number" THEN m.n ELSE Min({m.t[i] : i \in DOMAIN m.t})

\* The budget m less e ticks.
Less(m, e) ==
    IF m.kind = "None" THEN m
    ELSE IF m.kind = "Number" THEN Number(m.n - e)
    ELSE [kind |-> "Tuple", t |-> [i \in DOMAIN m.t |-> m.t[i] - e]]

\* C4: max_allowed_time is one budget for the whole chain of a call: the
\* budget every scope starts with, in the first attempt and in every retry,
\* is the caller's max_allowed_time less the time spent in all the scopes
\* before it.  So a call goes on or returns only while the time spent is
\* below the budget, a timeout is raised only when the time spent has
\* reached it, and when it has reached it at the end of a scope whose suite
\* raised nothing, the timeout is raised.
C4_OneBudget ==
    /\ (Running => frame.remaining_time = Less(max_allowed_time, spent))
    /\ (max_allowed_time.kind = "None" => raised # Timeout)
    /\ (max_allowed_time.kind # "None" =>
            /\ (Running \/ pc = "done" => spent < MinBudget(max_allowed_time))
            /\ (raised = Timeout => spent >= MinBudget(max_allowed_time))
            /\ (spent >= MinBudget(max_allowed_time) /\ scope.exc_value = None =>
                    pc = "raised" /\ raised = Timeout))

C4_Witness ==
    /\ max_allowed_time = Number(Ticks(1))
    /\ forced_refreshes > 0
    /\ pc = "raised"
    /\ raised = Timeout
    /\ scope.name = "send"
    /\ sends = 2
    /\ spent = Ticks(1)

\* What leaves a scope entered with budget m whose suite took e ticks and
\* raised exc_value, as C5 states it.
C5_Expected(m, e, exc_value) ==
    IF exc_value # None THEN exc_value
    ELSE IF m.kind = "None" THEN None
    ELSE IF m.kind = "Number" THEN (IF m.n - e <= 0 THEN Timeout ELSE None)
    ELSE IF m.t[1] - e <= 0 \/ m.t[2] - e <= 0 THEN Timeout ELSE None

\* The invocation goes on after the scope, so its locals are still there.
GoesOn == pc' \in {"send", "refresh", "recurse"}

\* C5: at the exit of a TimeoutGuard scope an exception of the suite
\* propagates and no timeout replaces it; otherwise nothing is raised for a
\* budget of None, which stays None, and for a number or a pair a timeout
\* is raised exactly when the budget (the smaller one of the pair) less the
\* elapsed time is zero or below, although the suite itself succeeded.
C5_TimeoutGuard ==
    [][ScopeStep =>
          /\ raised' = C5_Expected(frame.remaining_time, now' - now, scope'.exc_value)
          /\ (GoesOn /\ frame.remaining_time.kind = "None" =>
                  frame'.remaining_time = NoTimeout)
          /\ (GoesOn /\ frame.remaining_time.kind = "Number" =>
                  frame'.remaining_time
                      = Number(frame.remaining_time.n - (now' - now)))
          /\ (GoesOn /\ frame.remaining_time.kind = "Tuple" =>
                  frame'.remaining_time.t
                      = <<frame.remaining_time.t[1] - (now' - now),
                          frame.remaining_time.t[2] - (now' - now)>>)]_vars

C5_Witness ==
    /\ pc = "raised"
    /\ raised = Timeout
    /\ scope.name = "send"
    /\ scope.exc_value = None
    /\ scope.received = Some(200)
    /\ max_allowed_time.kind = "Tuple"

\* The budget of the scope being left is used up and its suite raised nothing.
DeadlineHit ==
    /\ scope'.exc_value = None
    /\ frame.remaining_time.kind # "None"
    /\ MinBudget(frame.remaining_time) - (now' - now) <= 0

\* C6: a timeout raised by the auth gate, the send or the forced refresh
\* ends the call: it reaches the caller, and nothing is sent, refreshed or
\* retried after it.
C6_TimeoutIsFatal ==
    /\ [][ScopeStep /\ DeadlineHit => pc' = "raised" /\ raised' = Timeout]_vars
    /\ [](raised = Timeout => pc = "raised")
    /\ [][raised = Timeout =>
            /\ pc' = "idle"
            /\ credentials' = credentials
            /\ now' = now]_vars

C6_Witness ==
    /\ pc = "raised"
    /\ raised = Timeout
    /\ scope.name = "gate"
    /\ sends = 0

\* C7: a RefreshError of Credentials.refresh, in the auth gate or in the
\* forced refresh, reaches the caller; nothing is sent, refreshed or retried
\* after it, and when it comes from the gate the request of that attempt
\* was not sent.
C7_RefreshErrorPropagates ==
    /\ [][ScopeStep /\ scope'.exc_value = RefreshError =>
            /\ pc' = "raised"
            /\ raised' = RefreshError
            /\ sends' = sends]_vars
    /\ [](raised = RefreshError =>
            /\ pc = "raised"
            /\ scope.name \in {"gate", "refresh"}
            /\ scope.refreshed
            /\ sends = forced_refreshes)
    /\ [][raised = RefreshError =>
            /\ pc' = "idle"
            /\ credentials' = credentials
            /\ now' = now]_vars

C7_Witness ==
    /\ pc = "raised"
    /\ raised = RefreshError
    /\ scope.name = "gate"
    /\ scope.posts = 1
    /\ sends = 0

\* A response with status s, received by the invocation with
\* credential_refresh_attempt a, is terminal in the sense of C8.
Terminal(s, a) == s \notin refresh_status_codes \/ a >= max_refresh_attempts

\* The send of this step received a response and its scope raised nothing.
Received == pc = "send" /\ scope'.received # None /\ raised' = None

\* C8: a response whose status is outside refresh_status_codes, or inside
\* it when credential_refresh_attempt has reached max_refresh_attempts, is
\* returned as it is: nothing is raised for it, and no forced refresh and no
\* retry is made for it.
C8_TerminalResponse ==
    /\ [][Received
          /\ Terminal(scope'.received[1], frame.credential_refresh_attempt) =>
            /\ pc' = "done"
            /\ result' = scope'.received
            /\ forced_refreshes' = forced_refreshes
            /\ credentials' = credentials]_vars
    /\ [](pc \in {"refresh", "recurse"} =>
            ~Terminal(frame.response[1], frame.credential_refresh_attempt))
    /\ [](pc = "done" =>
            /\ scope.name = "send"
            /\ result = scope.received
            /\ raised = None)
    /\ [][pc = "done" => pc' = "idle" /\ credentials' = credentials /\ now' = now]_vars

C8_Witness ==
    /\ pc = "done"
    /\ result = Some(403)
    /\ 403 \notin refresh_status_codes
    /\ forced_refreshes < max_refresh_attempts
    /\ sends = 1

\* C9: after a needs-refresh response with credential_refresh_attempt below
\* max_refresh_attempts, Credentials.refresh is called whether or not the
\* credentials are valid, and the request is entered again, with
\* credential_refresh_attempt + 1, only after that refresh returned.
C9_ForcedRefresh ==
    /\ [][Received
          /\ ~Terminal(scope'.received[1], frame.credential_refresh_attempt) =>
            pc' = "refresh"]_vars
    /\ [][pc = "refresh" =>
            /\ scope'.name = "refresh"
            /\ forced_refreshes' = forced_refreshes + 1
            /\ scope'.posts = (IF can_refresh(credentials) THEN 1 ELSE 0)
            /\ (~can_refresh(credentials) => raised' = RefreshError)
            /\ sends' = sends
            /\ pc' \in {"recurse", "raised"}
            /\ (pc' = "recurse" => scope'.exc_value = None /\ raised' = None)]_vars
    /\ [][pc = "recurse" =>
            /\ pc' = "gate"
            /\ frame'.credential_refresh_attempt
                   = frame.credential_refresh_attempt + 1
            /\ sends' = sends
            /\ credentials' = credentials]_vars
    /\ [](pc \in {"gate", "send"} =>
            forced_refreshes = frame.credential_refresh_attempt)

C9_Witness ==
    /\ pc = "recurse"
    /\ scope.name = "refresh"
    /\ scope.valid_at_entry
    /\ scope.posts = 1
    /\ scope.exc_value = None

\* C10: Credentials.before_request calls refresh exactly when the
\* credentials are not valid at entry, without any request to the token
\* endpoint when they are valid, and then applies the token; every send of
\* a call, first attempt or retry, comes after a before_request of the same
\* attempt that returned, and carries the token the credentials hold, which
\* after the skewed expiry is the one a granted refresh brought.
C10_AuthGate ==
    /\ [](scope.name = "gate" =>
            /\ scope.refreshed <=> ~scope.valid_at_entry
            /\ scope.valid_at_entry => scope.posts = 0)
    /\ [][pc = "gate" /\ valid(credentials, now) =>
            /\ credentials' = credentials
            /\ now' = now
            /\ scope'.posts = 0]_vars
    /\ [][pc = "gate" /\ ~valid(credentials, now) /\ pc' = "send" =>
            /\ scope'.posts = 1
            /\ credentials'.token # None]_vars
    /\ [](pc = "send" =>
            /\ scope.name = "gate"
            /\ scope.exc_value = None
            /\ raised = None
            /\ "Authorization" \in DOMAIN frame.request_headers
            /\ frame.request_headers["Authorization"]
                   = <<"Bearer", credentials.token[1]>>)
    /\ [][sends' = sends + 1 => pc = "send"]_vars

C10_Witness ==
    /\ pc = "send"
    /\ scope.name = "gate"
    /\ scope.refreshed
    /\ ~scope.valid_at_entry
    /\ now >= Ticks(1)
    /\ credentials.token = Some("T1")
    /\ frame.request_headers["Authorization"] = <<"Bearer", "T1">>

\* C11: in every reachable state of a Credentials object and at every time,
\* valid is true exactly when the token is present and expired is false,
\* that is when the token is present and the expiry is absent or more than
\* the skew ahead.
C11_ValidIffTokenAndNotExpired ==
    /\ valid(credentials, now)
           <=> (credentials.token # None /\ ~expired(credentials, now))
    /\ valid(credentials, now)
           <=> /\ credentials.token # None
               /\ \/ credentials.expiry = None
                  \/ now < credentials.expiry[1] - CLOCK_SKEW

C11_Witness ==
    /\ credentials.token # None
    /\ credentials.expiry # None
    /\ now >= credentials.expiry[1] - CLOCK_SKEW
    /\ ~valid(credentials, now)

C13_NoExpiryNeverExpires ==
    /\ \A token \in TokenPayloads :
           token.expires_in = None
           => from_token_response(token, Some(API_URL), now).expiry = None
    /\ (credentials.expiry = None => ~expired(credentials, now))
    /\ (/\ call.op = "before_request"
        /\ call.before.expiry = None
        /\ call.before.token # None
        => /\ ~call.refreshed
           /\ call.posts = 0
           /\ call.exc = None
           /\ credentials = call.before)

C13_Witness ==
    /\ call.op = "before_request"
    /\ call.before.expiry = None
    /\ call.t0 = MaxTime
    /\ ~call.refreshed
    /\ ~expired(credentials, now)

\* The last call on the Credentials object called Credentials.refresh.
Refreshed == call.op \in {"refresh", "before_request"} /\ call.refreshed

\* token, refresh_token and expiry of a Credentials object.
Fields(self) == <<self.token, self.refresh_token, self.expiry>>

\* C14: Credentials.refresh called while refresh_token is absent, or while
\* token_uri is absent, fails with RefreshError, sends nothing to the token
\* endpoint and leaves token, refresh_token and expiry as they were.
C14_CannotRefresh ==
    Refreshed /\ (call.before.refresh_token = None \/ call.before.token_uri = None)
    => /\ call.exc = RefreshError
       /\ call.posts = 0
       /\ call.reply = NoReply
       /\ Fields(credentials) = Fields(call.before)

C14_Witness ==
    /\ call.op = "refresh"
    /\ call.before.refresh_token # None
    /\ call.before.token_uri = None
    /\ call.exc = RefreshError
    /\ call.posts = 0

\* C15: Credentials.refresh fails with RefreshError whenever the JSON body
\* of the token endpoint's response has no access_token, whatever the
\* status of the response, and then token, refresh_token and expiry keep
\* the values they had before the call.
C15_NoAccessToken ==
    /\ Refreshed
    /\ call.posts = 1
    /\ call.reply.kind = "json"
    /\ call.reply.data.access_token = None
    => /\ call.exc = RefreshError
       /\ Fields(credentials) = Fields(call.before)

C15_Witness ==
    /\ call.op = "refresh"
    /\ call.posts = 1
    /\ call.reply.kind = "json"
    /\ call.reply.status_code = 200
    /\ call.reply.data.access_token = None
    /\ call.before.token # None
    /\ call.exc = RefreshError

\* token, refresh_token and expiry as the response reply, parsed at time t,
\* gives them: a response without refresh_token keeps the one in use, a
\* response without expires_in gives no expiry.
FromResponse(before, reply, t) ==
    <<reply.data.access_token,
      IF reply.data.refresh_token # None
      THEN reply.data.refresh_token
      ELSE before.refresh_token,
      IF reply.data.expires_in # None
      THEN Some(t + Ticks(reply.data.expires_in[1]))
      ELSE None>>

\* C16: after a Credentials.refresh that returned, token, refresh_token and
\* expiry are the three values of one response, the one this refresh
\* received; after a refresh that raised they are either all three as
\* before or all three those of the response; and the Authorization header
\* before_request then applies carries the token of that response.
C16_ReplacedTogether ==
    /\ (Refreshed /\ call.exc = None =>
            /\ call.posts = 1
            /\ call.reply.kind = "json"
            /\ Fields(credentials) = FromResponse(call.before, call.reply, call.t)
            /\ (call.op = "before_request" =>
                    call.headers[1]["Authorization"]
                        = <<"Bearer", call.reply.data.access_token[1]>>))
    /\ (Refreshed /\ call.exc # None =>
            \/ Fields(credentials) = Fields(call.before)
            \/ /\ call.reply.kind = "json"
               /\ call.reply.data.access_token # None
               /\ Fields(credentials) = FromResponse(call.before, call.reply, call.t))

C16_Witness ==
    /\ call.op = "before_request"
    /\ call.refreshed
    /\ call.exc = None
    /\ call.before.refresh_token = Some("R0")
    /\ call.before.expiry = Some(Ticks(11))
    /\ call.t > 0
    /\ Fields(credentials) = <<Some("T1"), Some("R1"), Some(call.t + Ticks(11))>>

\* C17 as stated: when the credentials hold requested scopes and the
\* refresh response includes granted scopes, Credentials.refresh fails with
\* RefreshError exactly when a requested scope name is missing from the
\* granted scope names, both taken as sets of space-delimited names.
C17_ScopeNames ==
    /\ Refreshed
    /\ call.posts = 1
    /\ call.reply.kind = "json"
    /\ call.reply.data.access_token # None
    /\ call.before.scopes # None
    /\ call.reply.data.scopes # None
    => (call.exc = RefreshError
            <=> split(call.before.scopes[1]) \ split(call.reply.data.scopes[1]) # {})

\* C18: Flow.credentials and Flow.authorized_session raise an error in
\* every state in which no fetch_token has returned yet, also after a
\* fetch_token that raised on a response that is not 2xx, which stores no
\* token; once a fetch_token has returned they build the Credentials from
\* the oauthToken payload stored by the last fetch_token that returned,
\* with the flow's api_url, the URL it logs in under, as token_uri.
C18_FlowCredentials ==
    /\ (~flow.fetched => flow.token = Unset)
    /\ (call.op = "fetch_token" =>
            /\ call.exc = None
                   <=> call.reply.kind = "response" /\ call.reply.status_code \in 200 .. 299
            /\ call.exc = None =>
                   /\ flow.token = Some(call.reply.oauthToken)
                   /\ call.value = flow.token
            /\ call.exc # None => flow.token = call.before.token)
    /\ (call.op \in {"credentials", "authorized_session"} /\ ~flow.fetched =>
            /\ call.exc # None
            /\ call.value = None
            /\ credentials = NoCredentials)
    /\ (call.op = "credentials" /\ flow.fetched =>
            /\ call.exc = None
            /\ call.value = Some(from_token_response(flow.token[1], Some(API_URL), call.t))
            /\ call.value[1].token_uri = Some(flow.api_url))
    /\ (call.op = "authorized_session" /\ flow.fetched =>
            /\ call.exc = None
            /\ credentials = from_token_response(flow.token[1], Some(API_URL), call.t)
            /\ credentials.token_uri = Some(flow.api_url)
            /\ call.value[1].credentials = credentials)

C18_Witness ==
    /\ call.op = "authorized_session"
    /\ call.exc # None
    /\ flow.failed
    /\ ~flow.fetched

\* C19 as stated, of the Credentials of ig_markets_api: one
\* Credentials.refresh that has a refresh_token and a token_uri issues
\* exactly one request to the token endpoint, in one attempt, and no
\* response to it, 401 included, makes it try again.
C19_OneTokenRequest ==
    call.op = "api_refresh" /\ can_refresh(call.before)
    => /\ call.posts = 1
       /\ call.attempts = 1

\* The thread is inside Credentials.refresh.
InRefresh(i) ==
    threads.of[i].pc \in {"refresh", "refresh_grant", "token", "expiry",
                          "refresh_token", "scopes"}

\* C20: nothing keeps two threads that call request on one shared session
\* apart.  Each thread refreshes on what it saw itself (credentials that
\* were not valid), posts the refresh_token it read from the object, and
\* assigns each of token, expiry and refresh_token whatever the other thread
\* did in between: every field holds what the thread that assigned it last
\* was granted, and once both threads have made their assignments the
\* refresh_token is the one of the thread that finished second.  The
\* interleaving in which both see the credentials as not valid, both post
\* the same refresh_token and the second to finish overwrites all three
\* fields stored by the first is reachable (the witness).
C20_RefreshRace ==
    /\ \A i \in Threads :
           /\ InRefresh(i) => threads.of[i].saw_invalid
           /\ threads.of[i].grant # None =>
                  /\ threads.of[i].saw_invalid
                  /\ threads.of[i].refresh_token # None
    /\ (threads.last.token # 0 =>
            credentials.token = threads.of[threads.last.token].grant[1].access_token)
    /\ (threads.last.expiry # 0 =>
            credentials.expiry = threads.of[threads.last.expiry].grant[1].expiry)
    /\ (threads.last.refresh_token # 0 =>
            credentials.refresh_token
                = threads.of[threads.last.refresh_token].grant[1].refresh_token)
    /\ (Len(threads.finished) = 2 =>
            /\ threads.finished[1] # threads.finished[2]
            /\ threads.last.refresh_token = threads.finished[2])

C20_Witness ==
    /\ threads.of[1].saw_invalid
    /\ threads.of[2].saw_invalid
    /\ threads.of[1].refresh_token = Some("R0")
    /\ threads.of[2].refresh_token = Some("R0")
    /\ threads.finished = <<1, 2>>
    /\ threads.of[1].pc = "send"
    /\ threads.of[1].applied = Some("T1")
    /\ threads.of[1].grant[1].refresh_token = Some("R1")
    /\ threads.last = [token |-> 2, expiry |-> 2, refresh_token |-> 2]
    /\ Fields(credentials) = <<Some("T2"), Some("R2"), None>>

\* C21 as stated, of the Credentials of both packages: to_json returns the
\* JSON object whose members are exactly the fields among token,
\* refresh_token and scopes that are not None and not named in strip, each
\* with the value of the field, and a credential built from the members of
\* to_json() has the same token, refresh_token and scopes.
C21_ToJson ==
    call.op \in {"to_json", "api_to_json"}
    => /\ call.exc = None
       /\ call.text # None
       /\ LET info == json_loads(call.text[1])
              rebuilt == Credentials(get(info, "token"), get(info, "refresh_token"),
                                     get(info, "scopes"), call.before.token_uri, None)
          IN  /\ DOMAIN info
                     = {k \in {"token", "refresh_token", "scopes"} :
                            /\ call.before[k] # None
                            /\ (call.strip = None \/ k \notin call.strip[1])}
              /\ \A k \in DOMAIN info : Some(info[k]) = call.before[k]
              /\ (call.strip = None =>
                      /\ rebuilt.token = call.before.token
                      /\ rebuilt.refresh_token = call.before.refresh_token
                      /\ rebuilt.scopes = call.before.scopes)

\* C22 as stated: the recursive call of a retry is made for the same
\* request as the attempt before it, and so as the first one: the request
\* it builds has the same method, URL, query parameters, cookies and body
\* (content, data, files, json).
C22_RetryReplaysCall ==
    [][pc = "recurse" /\ pc' = "gate"
       => build_request_of(frame'.arguments) = build_request_of(frame.arguments)]_vars

\* C23: every request about to be sent on the main transport carries
\* Authorization: Bearer t, where t is the token the credentials hold at
\* that moment; the request of a retry carries the token of a refresh
\* response (the forced refresh before it, or the refresh of its gate) and
\* not the login token that was rejected.
C23_BearerIsCurrentToken ==
    pc = "send"
    => /\ credentials.token # None
       /\ "Authorization" \in DOMAIN frame.request_headers
       /\ frame.request_headers["Authorization"] = <<"Bearer", credentials.token[1]>>
       /\ (frame.credential_refresh_attempt > 0
           => /\ forced_refreshes = frame.credential_refresh_attempt
              /\ \E d \in GrantData :
                     frame.request_headers["Authorization"]
                         = <<"Bearer", d.access_token[1]>>
              /\ \A token \in LoginPayloads :
                     frame.request_headers["Authorization"]
                         # <<"Bearer", token.access_token[1]>>)

C23_Witness ==
    /\ pc = "send"
    /\ frame.credential_refresh_attempt = 1
    /\ forced_refreshes = 1
    /\ scope.name = "gate"
    /\ ~scope.refreshed
    /\ frame.request_headers["Authorization"] = <<"Bearer", "T1">>

\* The last call on the Credentials object called Credentials.refresh, which
\* got a grant and raised RefreshError on the scope check.
FailedScopeCheck ==
    /\ Refreshed
    /\ call.exc = RefreshError
    /\ call.posts = 1
    /\ call.reply.kind = "json"
    /\ call.reply.data.access_token # None

\* C24: when Credentials.refresh raises RefreshError on the scope check,
\* token, refresh_token and expiry hold the values of the refresh response
\* and are not restored; scopes and token_uri are as before; before_request
\* has then applied nothing to the headers.
C24_NoRollback ==
    FailedScopeCheck
    => /\ Fields(credentials) = FromResponse(call.before, call.reply, call.t)
       /\ credentials.token = call.reply.data.access_token
       /\ credentials.scopes = call.before.scopes
       /\ credentials.token_uri = call.before.token_uri
       /\ scopes_requested_but_not_granted(call.before, call.reply.data) # {}
       /\ (call.op = "before_request" => call.headers = Some(ClientHeaders))

C24_Witness ==
    /\ FailedScopeCheck
    /\ call.op = "refresh"
    /\ call.before.token = Some("T0")
    /\ call.before.expiry = Some(Ticks(11))
    /\ call.reply.data.expires_in = None
    /\ credentials.token = Some("T1")
    /\ credentials.expiry = None
    /\ Fields(credentials) # Fields(call.before)

\* C25: after a Credentials.refresh that returned, the token is the
\* response's access_token; the refresh_token is the response's when the
\* response has one and the one held before otherwise, so that a further
\* refresh can be made; the expiry is the time the response was parsed plus
\* expires_in when the response has expires_in, and None otherwise, and
\* then the credentials are not expired at any later time, whatever expiry
\* they had before.
C25_SuccessfulRefresh ==
    Refreshed /\ call.exc = None
    => LET data == call.reply.data IN
       /\ credentials.token = data.access_token
       /\ credentials.token # None
       /\ (data.refresh_token # None => credentials.refresh_token = data.refresh_token)
       /\ (data.refresh_token = None
               => credentials.refresh_token = call.before.refresh_token)
       /\ can_refresh(credentials)
       /\ (data.expires_in # None
               => credentials.expiry = Some(call.t + Ticks(data.expires_in[1])))
       /\ (data.expires_in = None
               => /\ credentials.expiry = None
                  /\ \A t \in now .. MaxTime + Ticks(CLOCK_SKEW_SECS + 11) :
                         ~expired(credentials, t))

C25_Witness ==
    /\ call.op = "refresh"
    /\ call.exc = None
    /\ call.before.expiry = Some(Ticks(11))
    /\ call.before.refresh_token = Some("R0")
    /\ call.reply.data.refresh_token = None
    /\ call.reply.data.expires_in = None
    /\ now >= Ticks(1)
    /\ expired(call.before, now)
    /\ credentials.refresh_token = Some("R0")
    /\ credentials.expiry = None
    /\ ~expired(credentials, now)

\* C26 as stated: whenever before_request has returned in the auth gate,
\* the credentials are valid, so no request is sent with a token that
\* Credentials.expired considers expired when the gate completes.
C26_Original ==
    pc = "send" => valid(credentials, now)

\* C26, amended: a before_request that returns leaves the credentials as
\* they were, and valid, when they were valid at entry; when they were not,
\* the credentials hold the token and the expiry of a refresh response and
\* are valid exactly when that response has no expires_in or an expires_in
\* larger than the skew of 10 seconds.  After a response with an expires_in
\* of 10 seconds or less before_request returns with credentials that are
\* expired, and the request is sent with their token.
C26_ValidAfterGate ==
    [][pc = "gate" /\ pc' = "send"
       => /\ (valid(credentials, now)
                  => credentials' = credentials /\ valid(credentials', now'))
          /\ (~valid(credentials, now)
                  => \E d \in GrantData :
                         /\ credentials'.token = d.access_token
                         /\ credentials'.expiry = parse_expiry(d, now')
                         /\ (valid(credentials', now')
                                 <=> \/ d.expires_in = None
                                     \/ d.expires_in[1] > CLOCK_SKEW_SECS))
          /\ frame'.request_headers["Authorization"]
                 = <<"Bearer", credentials'.token[1]>>]_vars

C26_Witness ==
    /\ pc = "send"
    /\ scope.name = "gate"
    /\ scope.refreshed
    /\ scope.exc_value = None
    /\ credentials.expiry = Some(now + Ticks(5))
    /\ expired(credentials, now)
    /\ ~valid(credentials, now)
    /\ frame.request_headers["Authorization"] = <<"Bearer", "T1">>

====
